---- MODULE Spec2Model ----
(***************************************************************************)
(* Smart-AI-Resume-Analyzer: the dashboard queries (dashboard.py), the     *)
(* feedback store (feedback.py) and the page dispatch (app.py).            *)
(*                                                                         *)
(* Text is a sequence of one-character strings.  A datetime is a record    *)
(* [ord, sec]: the proleptic Gregorian ordinal of its day (as Python's     *)
(* date.toordinal) and the second within the day.  A number SQL rounds to  *)
(* one decimal is held in tenths (69.5 is 695).                            *)
(***************************************************************************)
EXTENDS Integers, Sequences, FiniteSets, TLC

VARIABLES
    clock,              \* the host clock: an index into Instants
    resume_data,        \* table resume_data, in insertion order
    resume_analysis,    \* table resume_analysis, in insertion order
    metrics,            \* what get_resume_metrics returned in this run
    skill_distribution, \* what get_skill_distribution returned in this run
    weekly_trends,      \* what get_weekly_trends returned in this run
    table_exists,       \* feedback.db holds the table feedback
    feedback,           \* table feedback, in insertion order
    sqlite_sequence,    \* AUTOINCREMENT: the largest id ever given
    feedback_stats,     \* what get_feedback_stats returned or raised
    saves,              \* history: the number of completed save_feedback calls
    submitted,          \* history: the feedback_data of the last completed save
    pc,                 \* concurrent sessions: position in save_feedback
    conn,               \* concurrent sessions: the connection's open transaction
    lock,               \* the session holding the database's write lock, or 0
    overlapped,         \* history: two save_feedback calls were open at once
    session_state,      \* st.session_state: page and initial_load
    rerun_pending,      \* st.rerun() ended the last script run
    run                 \* the last script run: its trigger and the handler called

dashVars == <<resume_data, resume_analysis, metrics, skill_distribution,
              weekly_trends>>
feedVars == <<table_exists, feedback, sqlite_sequence, feedback_stats, saves,
              submitted>>
concVars == <<pc, conn, lock, overlapped>>
appVars == <<session_state, rerun_pending, run>>

vars == <<clock, dashVars, feedVars, concVars, appVars>>

\* SQL NULL / Python None where a number is expected (no count or score is
\* negative)
NULL == -1
\* a query that has not returned in this run: otherwise <<its return value>>
NoResult == <<>>

\* ---------------------------------------------------------------- bounds
MaxResumes == 2
MaxAnalyses == 2
MaxDays == 3

\* ------------------------------------------------------------- calendar
\* Ordinal of 2023-09-30, a Saturday: the clock's days run over Sunday the
\* 1st of October and Monday the 2nd.
FirstDay == 738793
\* Ordinal of 1999-12-31: a host whose clock was wrong when a row was saved.
StaleDay == 730119
\* midnight and noon
SecondsOfDay == <<0, 43200>>

Days == [i \in 1..MaxDays |-> FirstDay + i - 1]

\* The instants the clock passes through, in order: noon of the stale day,
\* then every second of SecondsOfDay of every day of Days.
Instants ==
    <<[ord |-> StaleDay, sec |-> SecondsOfDay[2]]>> \o
    [k \in 1..(Len(Days) * Len(SecondsOfDay)) |->
        [ord |-> Days[((k - 1) \div Len(SecondsOfDay)) + 1],
         sec |-> SecondsOfDay[((k - 1) % Len(SecondsOfDay)) + 1]]]

\* year, month and day of an ordinal (datetime's fields)
Ymd(n) ==
    LET z == n + 305
        era == z \div 146097
        doe == z - era * 146097
        yoe == (doe - doe \div 1460 + doe \div 36524 - doe \div 146096) \div 365
        doy == doe - (365 * yoe + yoe \div 4 - yoe \div 100)
        mp == (5 * doy + 2) \div 153
        d == doy - (153 * mp + 2) \div 5 + 1
        m == IF mp < 10 THEN mp + 3 ELSE mp - 9
        y == yoe + era * 400 + (IF m <= 2 THEN 1 ELSE 0)
    IN [year |-> y, month |-> m, day |-> d]

\* datetime.weekday(): Monday is 0
Weekday(dt) == (dt.ord + 6) % 7

\* now.replace(hour=0, minute=0, second=0, microsecond=0)
ReplaceMidnight(dt) == [dt EXCEPT !.sec = 0]

\* now - timedelta(days=n): the time of day is kept
MinusDays(dt, n) == [dt EXCEPT !.ord = dt.ord - n]

\* now.replace(day=1): the time of day is kept
ReplaceDay1(dt) == [dt EXCEPT !.ord = dt.ord - (Ymd(dt.ord).day - 1)]

\* datetime(2000, 1, 1)
Epoch2000 == [ord |-> 730120, sec |-> 0]

DigitChars == <<"0", "1", "2", "3", "4", "5", "6", "7", "8", "9">>
Pad2(n) == <<DigitChars[((n \div 10) % 10) + 1], DigitChars[(n % 10) + 1]>>
Pad4(n) == Pad2(n \div 100) \o Pad2(n % 100)

\* strftime('%Y-%m-%d')
StrftimeDate(dt) ==
    LET f == Ymd(dt.ord)
    IN Pad4(f.year) \o <<"-">> \o Pad2(f.month) \o <<"-">> \o Pad2(f.day)

\* strftime('%Y-%m-%d %H:%M:%S')
Strftime(dt) ==
    StrftimeDate(dt) \o <<" ">> \o Pad2(dt.sec \div 3600) \o <<":">>
        \o Pad2((dt.sec \div 60) % 60) \o <<":">> \o Pad2(dt.sec % 60)

\* byte value of the characters of a timestamp
Code(c) ==
    CASE c = " " -> 32
      [] c = "-" -> 45
      [] c = ":" -> 58
      [] OTHER -> 47 + (CHOOSE i \in 1..10 : DigitChars[i] = c)

\* SQLite compares TEXT with memcmp (BINARY collation): a < b when a is the
\* smaller at the first byte that differs, or a proper prefix of b
TextLess(a, b) ==
    LET n == IF Len(a) < Len(b) THEN Len(a) ELSE Len(b)
        differ == {i \in 1..n : a[i] # b[i]}
    IN IF differ = {} THEN Len(a) < Len(b)
       ELSE LET i == CHOOSE d \in differ : \A e \in differ : d <= e
            IN Code(a[i]) < Code(b[i])

\* SQL: a >= b on TEXT
TextGE(a, b) == ~TextLess(a, b)

\* ------------------------------------------------------- resume database
Now == Instants[clock]

\* One increment of the host clock.
Tick ==
    /\ clock < Len(Instants)
    /\ clock' = clock + 1
    /\ metrics' = NoResult /\ skill_distribution' = NoResult
    /\ weekly_trends' = NoResult /\ feedback_stats' = NoResult
    /\ UNCHANGED <<resume_data, resume_analysis, table_exists, feedback,
                   sqlite_sequence, saves, submitted, concVars, appVars>>

\* save_resume_data: one row per analysed resume, stamped with the clock
SaveResume(skills) ==
    /\ resume_data' = Append(resume_data,
           [id |-> Len(resume_data) + 1, skills |-> skills,
            created_at |-> Strftime(Now)])
    /\ metrics' = NoResult /\ skill_distribution' = NoResult
    /\ weekly_trends' = NoResult
    /\ UNCHANGED <<clock, resume_analysis, feedVars, concVars, appVars>>

\* save_analysis_data: an analysis row for the resume just saved, joined to
\* it by resume_id
SaveAnalysis(rid, ats, kw) ==
    /\ resume_data # <<>>
    /\ rid = resume_data[Len(resume_data)].id
    /\ resume_analysis' = Append(resume_analysis,
           [resume_id |-> rid, ats_score |-> ats, keyword_match_score |-> kw])
    /\ metrics' = NoResult /\ skill_distribution' = NoResult
    /\ weekly_trends' = NoResult
    /\ UNCHANGED <<clock, resume_data, feedVars, concVars, appVars>>

\* ---------------------------------------------------- get_resume_metrics
Periods == <<"Today", "This Week", "This Month", "All Time">>

start_of_day(now) == ReplaceMidnight(now)
start_of_week(now) == MinusDays(now, Weekday(now))
start_of_month(now) == ReplaceDay1(now)

\* the start_date the loop pairs with each period
StartDate(period, now) ==
    CASE period = "Today" -> start_of_day(now)
      [] period = "This Week" -> start_of_week(now)
      [] period = "This Month" -> start_of_month(now)
      [] period = "All Time" -> Epoch2000

\* WHERE rd.created_at >= ? : the resume rows the query keeps
Selected(start) ==
    {i \in 1..Len(resume_data) : TextGE(resume_data[i].created_at, start)}

\* FROM resume_data rd LEFT JOIN resume_analysis ra ON rd.id = ra.resume_id:
\* a pair <<i, j>> of row numbers, j = 0 for the NULL-extended row
LeftJoin(start) ==
    LET matches(i) == {j \in 1..Len(resume_analysis) :
                          resume_analysis[j].resume_id = resume_data[i].id}
    IN UNION {IF matches(i) = {} THEN {<<i, 0>>}
              ELSE {<<i, j>> : j \in matches(i)} : i \in Selected(start)}

\* COUNT(rd.id), without DISTINCT
CountTotal_NotDistinct(rows) == Cardinality(rows)

\* COUNT(DISTINCT rd.id)
CountTotal(rows) == Cardinality({resume_data[r[1]].id : r \in rows})

\* COUNT(DISTINCT CASE WHEN ra.ats_score >= 70 THEN rd.id END)
CountHighScoring(rows) ==
    Cardinality({resume_data[r[1]].id :
        r \in {q \in rows : q[2] # 0 /\ resume_analysis[q[2]].ats_score >= 70}})

RECURSIVE SumOf(_, _)
SumOf(rows, col) ==
    IF rows = {} THEN 0
    ELSE LET r == CHOOSE q \in rows : TRUE
         IN resume_analysis[r[2]][col] + SumOf(rows \ {r}, col)

\* ROUND(AVG(ra.<col>), 1), in tenths, a half rounded away from zero; NULL
\* when every joined value is NULL
RoundAvg(rows, col) ==
    LET vals == {r \in rows : r[2] # 0}
        n == Cardinality(vals)
    IN IF n = 0 THEN NULL
       ELSE (20 * SumOf(vals, col) + n) \div (2 * n)

\* the row value used as it is, without `or 0`
Or0_Missing(x) == x

\* Python's `x or 0`
Or0(x) == IF x = NULL \/ x = 0 THEN 0 ELSE x

MetricsFor(start) ==
    LET rows == LeftJoin(start)
    IN [total |-> Or0(CountTotal(rows)),
        ats_score |-> Or0(RoundAvg(rows, "ats_score")),
        keyword_score |-> Or0(RoundAvg(rows, "keyword_match_score")),
        high_scoring |-> Or0(CountHighScoring(rows))]

get_resume_metrics ==
    /\ metrics' = <<[p \in {Periods[k] : k \in 1..Len(Periods)} |->
                        MetricsFor(Strftime(StartDate(p, Now)))]>>
    /\ UNCHANGED <<clock, resume_data, resume_analysis, skill_distribution,
                   weekly_trends, feedVars, concVars, appVars>>

\* ------------------------------------------------ get_skill_distribution
\* instr(rest, ','): position of the first comma, 0 when there is none
Instr(text) ==
    IF \E i \in 1..Len(text) : text[i] = ","
    THEN CHOOSE i \in 1..Len(text) :
            text[i] = "," /\ \A j \in 1..(i - 1) : text[j] # ","
    ELSE 0

\* substr(rest, 1, n): the start taken as the first character
Substr0_FromOne(text, n) == SubSeq(text, 1, n)

\* substr(rest, 0, n): position 0 lies before the first character, so the
\* n characters from there are the first n - 1 of the text
Substr0(text, n) == SubSeq(text, 1, n - 1)

\* substr(rest, k): from position k to the end
SubstrFrom(text, k) == SubSeq(text, k, Len(text))

\* the skill values the recursive member of split derives from one rest
RECURSIVE Split(_)
Split(rest) ==
    IF rest = <<>> THEN <<>>
    ELSE <<Substr0(rest, Instr(rest))>>
            \o Split(SubstrFrom(rest, Instr(rest) + 1))

\* the skill column of split: '' and the derived values, per resume row
RECURSIVE SplitRows(_)
SplitRows(k) ==
    IF k = 0 THEN <<>>
    ELSE SplitRows(k - 1) \o <<<<>>>>
            \o Split(resume_data[k].skills \o <<",">>)

\* WHERE skill <> '' GROUP BY skill, COUNT(*)
GroupCount ==
    LET rows == SplitRows(Len(resume_data))
        kept == {i \in 1..Len(rows) : rows[i] # <<>>}
    IN [skill \in {rows[i] : i \in kept} |->
            Cardinality({i \in kept : rows[i] = skill})]

Limit == 10

\* ORDER BY count DESC LIMIT n: SQL leaves the order of equal counts open,
\* so every order of the groups that is descending in count is an outcome
RECURSIVE OrderByCountDesc(_, _, _)
OrderByCountDesc(groups, left, n) ==
    IF n = 0 \/ left = {} THEN {<<>>}
    ELSE UNION {{<<g>> \o rest : rest \in OrderByCountDesc(groups, left \ {g}, n - 1)} :
                  g \in {h \in left : \A o \in left : groups[h] >= groups[o]}}

get_skill_distribution ==
    /\ LET groups == GroupCount
       IN \E order \in OrderByCountDesc(groups, DOMAIN groups, Limit) :
             skill_distribution' =
                 <<[skills |-> order,
                    counts |-> [i \in 1..Len(order) |-> groups[order[i]]]]>>
    /\ UNCHANGED <<clock, resume_data, resume_analysis, metrics, weekly_trends,
                   feedVars, concVars, appVars>>

\* ----------------------------------------------------- get_weekly_trends
\* range(7, 0, -1): the 7 days ending yesterday
TrendDates_EndYesterday(now) ==
    [k \in 1..7 |-> StrftimeDate(MinusDays(now, 8 - k))]

\* [(now - timedelta(days=x)).strftime('%Y-%m-%d') for x in range(6, -1, -1)]
TrendDates(now) == [k \in 1..7 |-> StrftimeDate(MinusDays(now, 7 - k))]

\* SQL DATE(text) of a 'YYYY-MM-DD' or 'YYYY-MM-DD HH:MM:SS' text
SqlDate(text) == SubSeq(text, 1, 10)

\* SELECT COUNT(*) FROM resume_data WHERE DATE(created_at) = DATE(?)
CountOnDate(date) ==
    Cardinality({i \in 1..Len(resume_data) :
                    SqlDate(resume_data[i].created_at) = SqlDate(date)})

\* d[-3:]
Last3(text) == SubSeq(text, Len(text) - 2, Len(text))

get_weekly_trends ==
    /\ LET dates == TrendDates(Now)
       IN weekly_trends' =
             <<[labels |-> [k \in 1..Len(dates) |-> Last3(dates[k])],
                submissions |-> [k \in 1..Len(dates) |-> CountOnDate(dates[k])]]>>
    /\ UNCHANGED <<clock, resume_data, resume_analysis, metrics,
                   skill_distribution, feedVars, concVars, appVars>>

\* ------------------------------------------------------- feedback store
\* setup_database: CREATE TABLE IF NOT EXISTS feedback
setup_database ==
    /\ table_exists' = TRUE
    /\ UNCHANGED <<clock, dashVars, feedback, sqlite_sequence, feedback_stats,
                   saves, submitted, concVars, appVars>>

\* the columns the INSERT names, in order
InsertColumns ==
    <<"rating", "usability_score", "feature_satisfaction", "missing_features",
      "improvement_suggestions", "user_experience", "timestamp">>

\* feedback_data: a dict, kept as its <<key, value>> pairs in insertion order
FeedbackData(rating, usability, satisfaction, missing, suggestions, experience) ==
    <<<<"rating", rating>>, <<"usability_score", usability>>,
      <<"feature_satisfaction", satisfaction>>, <<"missing_features", missing>>,
      <<"improvement_suggestions", suggestions>>,
      <<"user_experience", experience>>>>

\* (*feedback_data.values(), datetime.now())
InsertValues(feedback_data, now) ==
    [k \in 1..Len(feedback_data) |-> feedback_data[k][2]] \o <<Strftime(now)>>

\* the row an INSERT of these values adds under the AUTOINCREMENT id
InsertedRow(id, values) ==
    [c \in {"id"} \cup {InsertColumns[k] : k \in 1..Len(InsertColumns)} |->
        IF c = "id" THEN id
        ELSE values[CHOOSE k \in 1..Len(InsertColumns) : InsertColumns[k] = c]]

\* an UPDATE of the newest row in place of the INSERT
save_feedback_Overwrite(feedback_data) ==
    /\ feedback' =
          IF feedback = <<>>
          THEN <<InsertedRow(1, InsertValues(feedback_data, Now))>>
          ELSE [feedback EXCEPT ![Len(feedback)] =
                   InsertedRow(sqlite_sequence, InsertValues(feedback_data, Now))]
    /\ sqlite_sequence' = IF feedback = <<>> THEN 1 ELSE sqlite_sequence

\* save_feedback on its own connection with no other writer: connect, insert,
\* commit, close
save_feedback(feedback_data) ==
    /\ feedback' = Append(feedback,
           InsertedRow(sqlite_sequence + 1, InsertValues(feedback_data, Now)))
    /\ sqlite_sequence' = sqlite_sequence + 1

\* the columns pandas reads with a numeric dtype / with dtype object
NumericColumns == {"id", "rating", "usability_score", "feature_satisfaction"}
ObjectColumns ==
    {"missing_features", "improvement_suggestions", "user_experience",
     "timestamp"}

RECURSIVE ColumnSum(_, _, _)
ColumnSum(rows, col, k) ==
    IF k = 0 THEN 0 ELSE rows[k][col] + ColumnSum(rows, col, k - 1)

\* df.mean() of a frame with rows: the mean of a column is kept as the exact
\* quotient sum / count.  The object columns decide the outcome by the pandas
\* the program runs under: up to 1.5 they are dropped from the result, from
\* 2.0 (numeric_only=False) the reduction raises TypeError.
DataFrameMean(rows) ==
    {[kind |-> "dict",
      value |-> [c \in NumericColumns |->
                    [sum |-> ColumnSum(rows, c, Len(rows)), count |-> Len(rows)]]]}
    \cup {[kind |-> "TypeError", value |-> <<>>]}

\* df.mean().to_dict() if not df.empty else {}
get_feedback_stats ==
    /\ table_exists
    /\ IF feedback = <<>>
       THEN feedback_stats' = <<[kind |-> "dict", value |-> <<>>]>>
       ELSE \E outcome \in DataFrameMean(feedback) :
               feedback_stats' = <<outcome>>
    /\ UNCHANGED <<clock, dashVars, table_exists, feedback, sqlite_sequence,
                   saves, submitted, concVars, appVars>>

\* what render_feedback_form does to the store: save_feedback on a click of
\* "Submit Feedback", nothing otherwise
FeedbackForm(feedback_data, submit) ==
    IF submit
    THEN /\ save_feedback(feedback_data)
         /\ saves' = saves + 1
         /\ submitted' = feedback_data
         /\ feedback_stats' = NoResult
    ELSE UNCHANGED <<feedback, sqlite_sequence, saves, submitted, feedback_stats>>

render_feedback_form(feedback_data, submit) ==
    /\ table_exists
    /\ FeedbackForm(feedback_data, submit)
    /\ UNCHANGED <<clock, dashVars, table_exists, concVars, appVars>>

\* ------------------------------ save_feedback from two sessions at once
\* Each session runs save_feedback on a connection of its own.  SQLite lets
\* one connection at a time hold the write lock of the database file; a
\* connection that finds it taken waits, and sqlite3.connect's default
\* timeout (5 s) bounds the wait.
Sessions == {1, 2}

\* nobody holds the write lock, so the INSERT of a session can take it
WriteLockFree_NoLock(p) == TRUE

WriteLockFree(p) == lock = 0

\* conn = sqlite3.connect(self.db_path)
Connect(p, feedback_data) ==
    /\ table_exists
    /\ pc[p] = "idle"
    /\ pc' = [pc EXCEPT ![p] = "connected"]
    /\ conn' = [conn EXCEPT ![p] = [feedback_data |-> feedback_data, row |-> <<>>]]
    /\ overlapped' = (overlapped \/ \E q \in Sessions \ {p} :
                         pc[q] \in {"connected", "inserted", "committed"})
    /\ UNCHANGED <<clock, dashVars, feedVars, lock, appVars>>

\* conn.execute(INSERT ...): opens the transaction, takes the write lock and
\* adds the row, under the next AUTOINCREMENT id, to the connection's view
Insert(p) ==
    /\ pc[p] = "connected"
    /\ WriteLockFree(p)
    /\ lock' = p
    /\ conn' = [conn EXCEPT ![p].row =
           <<InsertedRow(sqlite_sequence + 1,
                         InsertValues(conn[p].feedback_data, Now))>>]
    /\ pc' = [pc EXCEPT ![p] = "inserted"]
    /\ UNCHANGED <<clock, dashVars, feedVars, overlapped, appVars>>

\* conn.execute(INSERT ...) while another connection keeps the write lock for
\* longer than the timeout: sqlite3.OperationalError, which nothing catches
InsertTimesOut(p) ==
    /\ pc[p] = "connected"
    /\ lock \notin {0, p}
    /\ pc' = [pc EXCEPT ![p] = "raised"]
    /\ UNCHANGED <<clock, dashVars, feedVars, conn, lock, overlapped, appVars>>

\* conn.commit(): the row reaches the database file, the lock is released
Commit(p) ==
    /\ pc[p] = "inserted"
    /\ feedback' = Append(feedback, conn[p].row[1])
    /\ sqlite_sequence' = conn[p].row[1].id
    /\ lock' = IF lock = p THEN 0 ELSE lock
    /\ pc' = [pc EXCEPT ![p] = "committed"]
    /\ feedback_stats' = NoResult
    /\ UNCHANGED <<clock, dashVars, table_exists, saves, submitted, conn,
                   overlapped, appVars>>

\* conn.close(): save_feedback returns
Close(p) ==
    /\ pc[p] = "committed"
    /\ pc' = [pc EXCEPT ![p] = "closed"]
    /\ saves' = saves + 1
    /\ submitted' = conn[p].feedback_data
    /\ UNCHANGED <<clock, dashVars, table_exists, feedback, sqlite_sequence,
                   feedback_stats, conn, lock, overlapped, appVars>>

\* ------------------------------------------------------- page dispatch
\* The pictographs of the page names, one string per code point: the house,
\* the magnifying glass, the memo, the bar chart, the speech balloon, and the
\* information sign followed by the variation selector U+FE0F.
House == <<"U+1F3E0">>
Glass == <<"U+1F50D">>
Memo == <<"U+1F4DD">>
Chart == <<"U+1F4CA">>
Balloon == <<"U+1F4AC">>
Info == <<"U+2139", "U+FE0F">>

\* self.pages: the names of the pages with their handlers, in dict order
Pages ==
    <<[name |-> House \o <<" ", "H", "O", "M", "E">>, func |-> "render_home"],
      [name |-> Glass \o <<" ", "R", "E", "S", "U", "M", "E", " ",
                           "A", "N", "A", "L", "Y", "Z", "E", "R">>,
       func |-> "render_analyzer"],
      [name |-> Memo \o <<" ", "R", "E", "S", "U", "M", "E", " ",
                          "B", "U", "I", "L", "D", "E", "R">>,
       func |-> "render_builder"],
      [name |-> Chart \o <<" ", "D", "A", "S", "H", "B", "O", "A", "R", "D">>,
       func |-> "render_dashboard"],
      [name |-> Balloon \o <<" ", "F", "E", "E", "D", "B", "A", "C", "K">>,
       func |-> "render_feedback_page"],
      [name |-> Info \o <<" ", "A", "B", "O", "U", "T">>,
       func |-> "render_about"]>>

UpperCase ==
    <<"A", "B", "C", "D", "E", "F", "G", "H", "I", "J", "K", "L", "M",
      "N", "O", "P", "Q", "R", "S", "T", "U", "V", "W", "X", "Y", "Z">>
LowerCase ==
    <<"a", "b", "c", "d", "e", "f", "g", "h", "i", "j", "k", "l", "m",
      "n", "o", "p", "q", "r", "s", "t", "u", "v", "w", "x", "y", "z">>

\* str.lower()
Lower(text) ==
    [i \in 1..Len(text) |->
        IF \E k \in 1..26 : UpperCase[k] = text[i]
        THEN LowerCase[CHOOSE k \in 1..26 : UpperCase[k] = text[i]]
        ELSE text[i]]

\* old occurs in text at position i
OccursAt(text, old, i) ==
    /\ i + Len(old) - 1 <= Len(text)
    /\ SubSeq(text, i, i + Len(old) - 1) = old

\* str.replace(old, new): every occurrence, left to right, without overlap
RECURSIVE Replace(_, _, _)
Replace(text, old, new) ==
    IF text = <<>> THEN <<>>
    ELSE IF OccursAt(text, old, 1)
         THEN new \o Replace(SubSeq(text, Len(old) + 1, Len(text)), old, new)
         ELSE <<text[1]>> \o Replace(Tail(text), old, new)

\* str.strip(): leading and trailing white space removed
RECURSIVE Strip(_)
Strip(text) ==
    IF text = <<>> THEN <<>>
    ELSE IF text[1] = " " THEN Strip(Tail(text))
    ELSE IF text[Len(text)] = " " THEN Strip(SubSeq(text, 1, Len(text) - 1))
    ELSE text

\* name.lower().replace(" ", "_").replace(<pictograph>, "")....strip()
PageKey(name) ==
    Strip(Replace(Replace(Replace(Replace(Replace(Replace(
        Replace(Lower(name), <<" ">>, <<"_">>),
        House, <<>>), Glass, <<>>), Memo, <<>>), Chart, <<>>), Balloon, <<>>),
        Info, <<>>))

\* page_mapping keyed by the lowered page name alone, a key the sidebar never
\* writes
PageMapping_Lowered ==
    [key \in {Lower(Pages[k].name) : k \in 1..Len(Pages)} |->
        Pages[CHOOSE k \in 1..Len(Pages) : Lower(Pages[k].name) = key].name]

\* page_mapping: derived key -> page name (a later name replaces an earlier
\* one under the same key)
PageMapping ==
    [key \in {PageKey(Pages[k].name) : k \in 1..Len(Pages)} |->
        Pages[CHOOSE k \in 1..Len(Pages) :
                 /\ PageKey(Pages[k].name) = key
                 /\ \A j \in (k + 1)..Len(Pages) : PageKey(Pages[j].name) # key].name]

\* self.pages[name]
PageFunc(name) ==
    Pages[CHOOSE k \in 1..Len(Pages) :
             /\ Pages[k].name = name
             /\ \A j \in (k + 1)..Len(Pages) : Pages[j].name # name].func

home == <<"h", "o", "m", "e">>
resume_analyzer ==
    <<"r", "e", "s", "u", "m", "e", "_", "a", "n", "a", "l", "y", "z", "e", "r">>

\* the handler main calls for the session's page
Dispatch(state) ==
    LET current_page == IF "page" \in DOMAIN state THEN state.page ELSE home
    IN IF current_page \in DOMAIN PageMapping
       THEN PageFunc(PageMapping[current_page])
       ELSE "render_home"

\* the inputs that can start a script run: the first request of the session,
\* the rerun st.rerun() asks for, a click on a button the last run drew, or
\* any other widget input
Triggers ==
    IF run = <<>> THEN {<<"open">>}
    ELSE IF rerun_pending THEN {<<"rerun">>}
    ELSE {<<"sidebar", k>> : k \in 1..Len(Pages)} \cup {<<"input">>}
         \cup (IF run[1].handler = "render_home" THEN {<<"Get Started">>} ELSE {})
         \cup (IF run[1].handler = "render_feedback_page"
               THEN {<<"Submit Feedback">>} ELSE {})

\* One script run: ResumeApp() and main().  A run that calls st.rerun() stops
\* there; cause is the trigger of the run that asked for this rerun.
ScriptRun(trigger, feedback_data) ==
    /\ trigger \in Triggers
    /\ LET cause == IF trigger = <<"rerun">> THEN run[1].trigger ELSE trigger
           \* __init__: if 'page' not in st.session_state
           s0 == IF "page" \in DOMAIN session_state THEN session_state
                 ELSE session_state @@ ("page" :> home)
           handler == Dispatch(s0)
           stopped(state) ==
               /\ session_state' = state
               /\ rerun_pending' = TRUE
               /\ run' = <<[trigger |-> trigger, cause |-> cause,
                            handler |-> "none"]>>
               /\ UNCHANGED feedVars
       IN IF trigger[1] = "sidebar"
          THEN \* if st.button(page_name): page = key; st.rerun()
               stopped([s0 EXCEPT !.page = PageKey(Pages[trigger[2]].name)])
          ELSE IF "initial_load" \notin DOMAIN s0
          THEN stopped([s0 EXCEPT !.page = home] @@ ("initial_load" :> TRUE))
          ELSE IF handler = "render_home" /\ trigger = <<"Get Started">>
          THEN /\ session_state' = [s0 EXCEPT !.page = resume_analyzer]
               /\ rerun_pending' = TRUE
               /\ run' = <<[trigger |-> trigger, cause |-> cause,
                            handler |-> handler]>>
               /\ UNCHANGED feedVars
          ELSE /\ session_state' = s0
               /\ rerun_pending' = FALSE
               /\ run' = <<[trigger |-> trigger, cause |-> cause,
                            handler |-> handler]>>
               /\ IF handler = "render_feedback_page"
                  THEN \* FeedbackManager(); render_feedback_form()
                       /\ table_exists' = TRUE
                       /\ FeedbackForm(feedback_data,
                                       trigger = <<"Submit Feedback">>)
                  ELSE UNCHANGED feedVars
    /\ UNCHANGED <<clock, dashVars, concVars>>

\* ------------------------------------------------------- specifications
\* <<ats_score, keyword_match_score>> of an analysis
Scores == {<<69, 100>>, <<70, 40>>}

\* the host starts with the stale clock or with the right one
InitDash ==
    /\ clock \in 1..2
    /\ resume_data = <<>>
    /\ resume_analysis = <<>>
    /\ metrics = NoResult
    /\ skill_distribution = NoResult
    /\ weekly_trends = NoResult

InitFeedback ==
    /\ table_exists = FALSE
    /\ feedback = <<>>
    /\ sqlite_sequence = 0
    /\ feedback_stats = NoResult
    /\ saves = 0
    /\ submitted = <<>>

InitConc ==
    /\ pc = [p \in Sessions |-> "idle"]
    /\ conn = [p \in Sessions |-> [feedback_data |-> <<>>, row |-> <<>>]]
    /\ lock = 0
    /\ overlapped = FALSE

InitApp ==
    /\ session_state = <<>>
    /\ rerun_pending = FALSE
    /\ run = <<>>

Init == InitDash /\ InitFeedback /\ InitConc /\ InitApp

NextMetrics ==
    \/ Tick
    \/ Len(resume_data) < MaxResumes /\ SaveResume(<<>>)
    \/ /\ Len(resume_analysis) < MaxAnalyses
       /\ \E rid \in 1..MaxResumes, sc \in Scores : SaveAnalysis(rid, sc[1], sc[2])
    \/ get_resume_metrics

SpecMetrics == Init /\ [][NextMetrics]_vars

\* ------------------------------------------- reading a stored timestamp
DigitVal(c) == (CHOOSE i \in 1..10 : DigitChars[i] = c) - 1

\* the year a stored timestamp names
YearOf(text) ==
    1000 * DigitVal(text[1]) + 100 * DigitVal(text[2])
        + 10 * DigitVal(text[3]) + DigitVal(text[4])

\* ------------------------------------------------- skills of the resumes
MaxSkillRows == 3
MaxLadder == 9

Python == <<"P", "y", "t", "h", "o", "n">>
SQL == <<"S", "Q", "L">>
Go == <<"G", "o">>
LadderLetters == <<"c", "d", "e", "f", "g", "h", "i", "j", "k", "l", "m">>

RECURSIVE Repeat(_, _)
Repeat(text, n) == IF n = 0 THEN <<>> ELSE text \o Repeat(text, n - 1)

\* ",c,d,d,e,e,e,...": the i-th letter i times, each after a comma
RECURSIVE Ladder(_)
Ladder(n) ==
    IF n = 0 THEN <<>>
    ELSE Ladder(n - 1) \o Repeat(<<",", LadderLetters[n]>>, n)

SkillSamples_Example ==
    <<Python \o <<",">> \o SQL, Python \o <<",">> \o Go, SQL>>

SkillSamples ==
    {Python \o <<",">> \o SQL,
     Python \o <<",">> \o Go,
     SQL,
     Ladder(MaxLadder)}

NextSkills ==
    \/ Len(resume_data) < MaxSkillRows /\ \E s \in SkillSamples : SaveResume(s)
    \/ get_skill_distribution

SpecSkills == Init /\ [][NextSkills]_vars

\* --------------------------------------- properties: get_skill_distribution
\* the positions where a token of the comma-separated text starts, and where
\* the token starting at i ends: a token is a maximal run without a comma
TokenStarts(text) ==
    {i \in 1..Len(text) : text[i] # "," /\ (i = 1 \/ text[i - 1] = ",")}

TokenEnd(text, i) ==
    CHOOSE j \in i..Len(text) :
        /\ \A k \in i..j : text[k] # ","
        /\ j = Len(text) \/ text[j + 1] = ","

\* every token occurrence of every record, as <<record, token>>
TokenOccurrences ==
    UNION {LET text == resume_data[r].skills
           IN {<<r, i, SubSeq(text, i, TokenEnd(text, i))>> :
                  i \in TokenStarts(text)} : r \in 1..Len(resume_data)}

\* C2: at most 10 (token, count) pairs, the counts exact, in non-increasing
\* order, no token left out counting more than a returned one; the records
\* "Python,SQL", "Python,Go", "SQL" give Python 2, SQL 2 and Go 1 last.
C2_SkillDistribution ==
    skill_distribution # NoResult =>
        LET skills == skill_distribution[1].skills
            counts == skill_distribution[1].counts
            n == Len(skills)
            returned == {skills[i] : i \in 1..n}
            occ == TokenOccurrences
            tokens == {o[3] : o \in occ}
            occurrences == [t \in tokens |-> Cardinality({o \in occ : o[3] = t})]
        IN /\ Len(counts) = n
           /\ n <= 10
           /\ \A i, j \in 1..n : i # j => skills[i] # skills[j]
           /\ returned \subseteq tokens
           /\ \A i \in 1..n : counts[i] = occurrences[skills[i]]
           /\ \A i, j \in 1..n : i < j => counts[i] >= counts[j]
           /\ \A t \in tokens \ returned :
                 n = 10 /\ \A i \in 1..n : occurrences[t] <= counts[i]
           /\ [r \in 1..Len(resume_data) |-> resume_data[r].skills]
                  = SkillSamples_Example =>
                 /\ counts = <<2, 2, 1>>
                 /\ {skills[1], skills[2]} = {Python, SQL}
                 /\ skills[3] = Go

\* ten pairs returned, a token left out, a tie and an empty token discarded
C2_Witness ==
    /\ skill_distribution # NoResult
    /\ Len(skill_distribution[1].skills) = 10
    /\ \E o \in TokenOccurrences :
          \A i \in 1..10 : skill_distribution[1].skills[i] # o[3]
    /\ \E i \in 1..9 :
          skill_distribution[1].counts[i] = skill_distribution[1].counts[i + 1]
    /\ \E r \in 1..Len(resume_data) : resume_data[r].skills[1] = ","

NextTrends ==
    \/ Tick
    \/ Len(resume_data) < MaxResumes /\ SaveResume(<<>>)
    \/ get_weekly_trends

SpecTrends == Init /\ [][NextTrends]_vars

\* -------------------------------------------- properties: get_weekly_trends
\* the calendar day a stored timestamp names, as [year, month, day]
DayOf(text) ==
    [year |-> YearOf(text),
     month |-> 10 * DigitVal(text[6]) + DigitVal(text[7]),
     day |-> 10 * DigitVal(text[9]) + DigitVal(text[10])]

\* C3: exactly 7 pairs, for the 7 consecutive days ending today, oldest first;
\* a label is '-' and the two digits of the day of the month (the last 3
\* characters of YYYY-MM-DD); a count is the number of resume rows created on
\* that day, at any time of day.
C3_WeeklyTrends ==
    weekly_trends # NoResult =>
        LET labels == weekly_trends[1].labels
            counts == weekly_trends[1].submissions
        IN /\ Len(labels) = 7
           /\ Len(counts) = 7
           /\ \A k \in 1..7 :
                 LET day == Ymd(Now.ord - (7 - k))
                 IN /\ Len(labels[k]) = 3
                    /\ labels[k][1] = "-"
                    /\ 10 * DigitVal(labels[k][2]) + DigitVal(labels[k][3])
                          = day.day
                    /\ counts[k] >= 0
                    /\ counts[k] =
                          Cardinality({i \in 1..Len(resume_data) :
                              DayOf(resume_data[i].created_at) = day})

\* a row of an earlier day of the week counted at noon, a row older than the
\* 7 days counted nowhere
C3_Witness ==
    /\ weekly_trends # NoResult
    /\ \E k \in 1..6 : weekly_trends[1].submissions[k] = 1
    /\ weekly_trends[1].submissions[7] = 0
    /\ Len(resume_data) = 2
    /\ YearOf(resume_data[1].created_at) < 2000
    /\ resume_data[2].created_at[12] = "1"
    /\ weekly_trends[1].labels[7] = <<"-", "0", "2">>

\* ------------------------------------------------------ feedback: inputs
MaxFeedback == 3

FeedbackSamples ==
    {FeedbackData(5, 1, 5, <<>>, <<>>, <<>>),
     FeedbackData(3, 5, 5, <<"p", "d", "f">>, <<>>, <<>>),
     FeedbackData(4, 5, 2, <<>>, <<"o", "k">>, <<>>)}

NextFeedback ==
    \/ Tick
    \/ setup_database
    \/ \E d \in FeedbackSamples, submit \in BOOLEAN :
          (submit => Len(feedback) < MaxFeedback) /\ render_feedback_form(d, submit)
    \/ get_feedback_stats

SpecFeedback == Init /\ [][NextFeedback]_vars

\* ------------------------------------------------- properties: feedback
\* the value the mean of a column stands for is v
MeanIs(mean, v) == mean.sum = v * mean.count

\* C4: the mean of each numeric column over all stored records (a single
\* record gives its own values), and an empty result when nothing is stored.
C4_FeedbackStats ==
    feedback_stats # NoResult =>
        /\ feedback_stats[1].kind = "dict"
        /\ feedback = <<>> => DOMAIN feedback_stats[1].value = {}
        /\ feedback # <<>> =>
              \A c \in {"rating", "usability_score", "feature_satisfaction"} :
                 /\ c \in DOMAIN feedback_stats[1].value
                 /\ feedback_stats[1].value[c].count = Len(feedback)
                 /\ feedback_stats[1].value[c].sum =
                       ColumnSum(feedback, c, Len(feedback))
                 /\ Len(feedback) = 1 =>
                       MeanIs(feedback_stats[1].value[c], feedback[1][c])
        /\ [k \in 1..Len(feedback) |-> feedback[k].rating] = <<5, 3, 4>> =>
              MeanIs(feedback_stats[1].value.rating, 4)

\* C8: a completed save adds exactly one row, holding the submitted values
\* and the time of the save, and keeps the earlier rows; nothing else changes
\* a row; the number of rows is the number of completed saves.
C8_AppendOnly ==
    /\ [](Len(feedback) = saves)
    /\ [][IF saves' = saves + 1
          THEN /\ Len(feedback') = Len(feedback) + 1
               /\ SubSeq(feedback', 1, Len(feedback)) = feedback
               /\ LET row == feedback'[Len(feedback')]
                  IN /\ \A k \in 1..Len(submitted') :
                           row[submitted'[k][1]] = submitted'[k][2]
                     /\ row.timestamp = Strftime(Now)
                     /\ \A j \in 1..Len(feedback) : feedback[j].id # row.id
          ELSE saves' = saves /\ feedback' = feedback]_vars

\* two saves at different times, the first row still as it was saved
C8_Witness ==
    /\ saves = 2
    /\ Len(feedback) = 2
    /\ feedback[1].rating = 5
    /\ feedback[2].rating = 3
    /\ feedback[1].timestamp # feedback[2].timestamp

\* ----------------------------------------- two sessions submitting feedback
NextConc ==
    \/ setup_database
    \/ \E p \in Sessions, d \in FeedbackSamples : Connect(p, d)
    \/ \E p \in Sessions : Insert(p)
    \/ \E p \in Sessions : InsertTimesOut(p)
    \/ \E p \in Sessions : Commit(p)
    \/ \E p \in Sessions : Close(p)

SpecConc == Init /\ [][NextConc]_vars

\* C9: once both overlapping save_feedback calls have completed, the store
\* holds the row of each exactly once, under distinct ids.
C9_BothStored ==
    (\A p \in Sessions : pc[p] = "closed") =>
        /\ Len(feedback) = Cardinality(Sessions)
        /\ \A j, k \in 1..Len(feedback) : j # k => feedback[j].id # feedback[k].id
        /\ \A p \in Sessions :
              Cardinality({k \in 1..Len(feedback) :
                              feedback[k] = conn[p].row[1]}) = 1
        /\ \A p \in Sessions :
              \A c \in 1..Len(conn[p].feedback_data) :
                 conn[p].row[1][conn[p].feedback_data[c][1]]
                    = conn[p].feedback_data[c][2]

\* both calls completed after being open at the same time
C9_Witness ==
    /\ \A p \in Sessions : pc[p] = "closed"
    /\ overlapped
    /\ Len(feedback) = 2

\* ------------------------------------------------------- the application
NextApp ==
    \E trigger \in {<<"open">>, <<"rerun">>, <<"input">>, <<"Get Started">>,
                    <<"Submit Feedback">>}
                   \cup {<<"sidebar", k>> : k \in 1..Len(Pages)},
       d \in FeedbackSamples :
        /\ trigger = <<"Submit Feedback">> => Len(feedback) < MaxFeedback
        /\ ScriptRun(trigger, d)

SpecApp == Init /\ [][NextApp]_vars

\* ---------------------------------------------------- properties: dispatch
\* C10: the script run that follows the rerun of a click on 'Get Started'
\* calls render_analyzer.
C10_GetStarted ==
    (run # <<>> /\ run[1].trigger = <<"rerun">>
        /\ run[1].cause = <<"Get Started">>) =>
        run[1].handler = "render_analyzer"

\* the handlers of self.pages
Handlers == {Pages[k].func : k \in 1..Len(Pages)}

\* the handler self.pages registers under the derived key page, render_home
\* when no page name derives to it
RegisteredFor(page) ==
    IF \E k \in 1..Len(Pages) : PageKey(Pages[k].name) = page
    THEN Pages[CHOOSE k \in 1..Len(Pages) : PageKey(Pages[k].name) = page].func
    ELSE "render_home"

\* the six derived keys differ from one another, and from 'home'
KeysDistinct ==
    /\ \A j, k \in 1..Len(Pages) :
          j # k => PageKey(Pages[j].name) # PageKey(Pages[k].name)
    /\ \A k \in 1..Len(Pages) : PageKey(Pages[k].name) # home

\* the run that stops on a click of sidebar button k has written a key that
\* page_mapping holds for that button
ClickWritesLookupKey ==
    (run # <<>> /\ run[1].trigger[1] = "sidebar") =>
        /\ session_state.page \in DOMAIN PageMapping
        /\ PageMapping[session_state.page] = Pages[run[1].trigger[2]].name

\* the run that follows a sidebar click calls the handler of that button
ClickReachesHandler ==
    (run # <<>> /\ run[1].trigger = <<"rerun">>
        /\ run[1].cause[1] = "sidebar") =>
        run[1].handler = Pages[run[1].cause[2]].func

\* a run that reaches dispatch calls one handler of self.pages: the one
\* registered for the page of the session, render_home when the page matches
\* no derived key
DispatchCallsRegistered ==
    (run' # <<>> /\ run'[1].handler # "none") =>
        /\ run'[1].handler \in Handlers
        /\ "page" \in DOMAIN session_state
        /\ run'[1].handler = RegisteredFor(session_state.page)
        /\ session_state.page \notin {PageKey(Pages[k].name) : k \in 1..Len(Pages)}
              => run'[1].handler = "render_home"

\* C11: every script run that reaches dispatch calls exactly one handler; the
\* run after a click on a sidebar button calls the handler self.pages holds
\* for that button (the six derived keys are pairwise distinct and the key
\* the click writes is the key dispatch looks up); a page value that matches
\* no derived key, the initial 'home' included, is served by render_home.
C11_Dispatch ==
    /\ [](KeysDistinct /\ ClickWritesLookupKey /\ ClickReachesHandler)
    /\ [][DispatchCallsRegistered]_vars

\* the run after a click on the fourth sidebar button calls render_dashboard
\* under the key the click wrote
C11_Witness ==
    /\ run # <<>>
    /\ run[1].trigger = <<"rerun">>
    /\ run[1].cause = <<"sidebar", 4>>
    /\ run[1].handler = "render_dashboard"
    /\ session_state.page = PageKey(Pages[4].name)

\* ------------------------------------------- properties: get_resume_metrics
PeriodSet == {Periods[k] : k \in 1..Len(Periods)}

\* the window starts the specification states
WindowStart(period, now) ==
    CASE period = "Today" -> [ord |-> now.ord, sec |-> 0]
      [] period = "This Week" -> [ord |-> now.ord - Weekday(now), sec |-> 0]
      [] period = "This Month" ->
            [ord |-> now.ord - (Ymd(now.ord).day - 1), sec |-> 0]
      [] period = "All Time" -> Epoch2000

InWindow(period) ==
    {i \in 1..Len(resume_data) :
        TextGE(resume_data[i].created_at, Strftime(WindowStart(period, Now)))}

\* C1: each window's total is the number of distinct resumes created at or
\* after the start of the day / of Monday / of the month / 2000-01-01.
C1_WindowTotals ==
    metrics # NoResult =>
        \A p \in PeriodSet : metrics[1][p].total = Cardinality(InWindow(p))

\* the analysis rows joined to resume row i
AnalysesOf(i) ==
    {j \in 1..Len(resume_analysis) :
        resume_analysis[j].resume_id = resume_data[i].id}

ScoresWithinRange ==
    \A j \in 1..Len(resume_analysis) :
        /\ resume_analysis[j].ats_score \in 0..100
        /\ resume_analysis[j].keyword_match_score \in 0..100

\* C5: with every stored score in 0..100, each window's average scores lie in
\* [0,100], and are exactly 0, with high_scoring 0 and a plain total, when no
\* resume of the window has an analysis row.
C5_ScoresInRange ==
    (metrics # NoResult /\ ScoresWithinRange) =>
        \A p \in PeriodSet :
            LET m == metrics[1][p]
            IN /\ m.ats_score \in 0..1000
               /\ m.keyword_score \in 0..1000
               /\ m.total \in 0..Len(resume_data)
               /\ m.high_scoring \in 0..Len(resume_data)
               /\ (\A i \in InWindow(p) : AnalysesOf(i) = {}) =>
                     /\ m.ats_score = 0
                     /\ m.keyword_score = 0
                     /\ m.high_scoring = 0
               /\ InWindow(p) = {} => m.total = 0

\* a window holding only unanalysed resumes next to a window with a score
C5_Witness ==
    /\ metrics # NoResult
    /\ InWindow("Today") # {}
    /\ \A i \in InWindow("Today") : AnalysesOf(i) = {}
    /\ metrics[1]["Today"].ats_score = 0
    /\ metrics[1]["All Time"].ats_score > 0
    /\ metrics[1]["All Time"].keyword_score > 0

\* C6: the 'All Time' total is the number of resume rows created on or after
\* 2000-01-01, each counted once whatever the number of its analysis rows.
C6_AllTimeTotal ==
    metrics # NoResult =>
        metrics[1]["All Time"].total =
            Cardinality({i \in 1..Len(resume_data) :
                            YearOf(resume_data[i].created_at) >= 2000})

\* a row older than 2000 and a row with two analysis rows
C6_Witness ==
    /\ metrics # NoResult
    /\ \E i \in 1..Len(resume_data) : YearOf(resume_data[i].created_at) < 2000
    /\ \E i \in 1..Len(resume_data) :
          /\ YearOf(resume_data[i].created_at) >= 2000
          /\ Cardinality(AnalysesOf(i)) >= 2
    /\ metrics[1]["All Time"].total = 1

\* C7: each window's high_scoring is the number of distinct resumes of the
\* window with an analysis of ats_score >= 70, and is at most the total.
C7_HighScoring ==
    metrics # NoResult =>
        \A p \in PeriodSet :
            /\ metrics[1][p].high_scoring =
                  Cardinality({i \in InWindow(p) :
                      \E j \in AnalysesOf(i) :
                          resume_analysis[j].ats_score >= 70})
            /\ metrics[1][p].high_scoring <= metrics[1][p].total

====
